---- MODULE Spec2Model ----
(***************************************************************************)
(* VRPTW (Thesis-VRPTW, Base_Code).                                        *)
(*                                                                         *)
(*   ortools_solver.py  Problem / Solution / vehicle_routing_solver        *)
(*   main.py            the /solve/{instance} endpoint                     *)
(*   vrp_problem.py     Problem.__init__ and its travel-time matrix        *)
(*                                                                         *)
(* Python lists are modelled as functions over 0..len-1 where the code     *)
(* indexes them (customers, vehicles) and as sequences where the code only *)
(* appends and enumerates (routes, the log).                               *)
(***************************************************************************)
EXTENDS Integers, Sequences, FiniteSets, TLC

(* ------------------------------ bounds -------------------------------- *)
NumNodes == 3        \* entries of Problem.customers, the depot included
NumVehicles == 2     \* entries of Problem.vehicles
MaxCap == 2          \* vehicle capacities range over 1..MaxCap (0..MaxCap in datasets)
MaxDemand == 2       \* customer demands range over 1..MaxDemand
MaxTime == 1         \* ready_time, due_date and cumulative times range over 0..MaxTime
MaxService == 1      \* service times range over 0..MaxService
MaxCalls == 3        \* method calls made on one Solution object (SpecAPI)
MaxRequests == 2     \* /solve requests served (SpecServe)
NumInstances == 1    \* instance names known to the server (SpecServe)
MaxRows == 2         \* customer rows of a dataset file (SpecTT)
MaxCoord == 1        \* x and y coordinates range over 0..MaxCoord (SpecTT)

VARIABLES
    problem,        \* the Problem handed to vehicle_routing_solver (Spec, SpecAPI)
    sol,            \* the Solution object: problem, fsolution, routes, totals
    pc,             \* position inside vehicle_routing_solver
    feasible_ret,   \* what sol.feasible() returned: "unset", "True", "False"
    log,            \* records written by the last feasible() call
    cost_rets,      \* the values evaluate_cost() has returned for sol, in order
    files,          \* ../Solutions/sols/<instance>.json, per instance
    calls,          \* number of method calls made on sol (SpecAPI)
    requests,       \* number of /solve requests served (SpecServe)
    response,       \* the response of the last /solve request
    last,           \* what happened inside the last /solve request
    tt_rows,        \* customer rows of the dataset read by vrp_problem.Problem
    tt              \* the vrp_problem.Problem object

vars == <<problem, sol, pc, feasible_ret, log, cost_rets, files, calls,
          requests, response, last, tt_rows, tt>>

(* ------------------------- ortools_solver.py --------------------------- *)

len(f) == Cardinality(DOMAIN f)

\* Customer(BaseModel); x and y are never read by ortools_solver.py
Customer(id, demand, ready_time, due_date, service_time) ==
    [id |-> id, demand |-> demand, ready_time |-> ready_time,
     due_date |-> due_date, service_time |-> service_time]

\* Vehicle(BaseModel)
Vehicle(id, capacity) == [id |-> id, capacity |-> capacity]

\* Problem(BaseModel): no validator, every field value is accepted
Problem(vehicles, customers, id, depot) ==
    [vehicles |-> vehicles, customers |-> customers, id |-> id, depot |-> depot]

\* SolveWithParameters returned None
None == [found |-> FALSE, next |-> <<>>, cumul |-> <<>>]

(* pywrapcp.RoutingIndexManager(len(customers), len(vehicles), depot):     *)
(* node k has index k, the start of vehicle 0 is the depot's index, the    *)
(* starts of vehicles 1.. follow the nodes and the ends follow the starts. *)
(* IndexToNode of a number that is no index is shown as -1; with the depot *)
(* at 0 every customer's index is at least 1 and index - 1 is an index.    *)
Nodes(p) == 0 .. (len(p.customers) - 1)
Start(p, vehicle_id) ==
    IF vehicle_id = 0 THEN p.depot ELSE len(p.customers) + vehicle_id - 1
End(p, vehicle_id) == len(p.customers) + len(p.vehicles) - 1 + vehicle_id
IsEnd(p, index) == index >= len(p.customers) + len(p.vehicles) - 1
Indices(p) == 0 .. (len(p.customers) + 2 * len(p.vehicles) - 2)
NonEndIndices(p) == 0 .. (len(p.customers) + len(p.vehicles) - 2)
IndexToNode(p, index) ==
    IF index \in Nodes(p) THEN index
    ELSE IF index \in Indices(p) THEN p.depot
    ELSE -1

\* Solution.__init__
Solution(p, fsolution) ==
    [problem |-> p, fsolution |-> fsolution, routes |-> <<>>,
     total_driving_time |-> 0, total_driving_service_time |-> 0]

\* self.fsolution.Value(self.model.NextVar(index))
NextValue(self, index) == self.fsolution.next[index]
\* self.fsolution.Min(time_dimension.CumulVar(index))
CumulMin(self, index) == self.fsolution.cumul[index]
\* self.model.vehicles() and len(self.problem.vehicles)
vehicles(self) == len(self.problem.vehicles)

(* evaluate_cost, lines 86-94: the walk of one route from index.  Every    *)
(* index left adds its cumulative time to driving_time and the service     *)
(* time of the node entered to service_time; the end index adds its        *)
(* cumulative time to driving_time.                                        *)
RECURSIVE CostWalk(_, _)
CostWalk(self, index) ==
    IF IsEnd(self.problem, index)
    THEN [driving_time |-> CumulMin(self, index), service_time |-> 0]
    ELSE LET nxt == NextValue(self, index)
             rest == CostWalk(self, nxt)
         IN [driving_time |-> CumulMin(self, index) + rest.driving_time,
             service_time |->
                 self.problem.customers[IndexToNode(self.problem, nxt)].service_time
                 + rest.service_time]

RECURSIVE CostLoop(_, _)
CostLoop(self, vehicle_id) ==
    IF vehicle_id >= len(self.problem.vehicles) THEN 0
    ELSE LET w == CostWalk(self, Start(self.problem, vehicle_id))
         IN w.driving_time + w.service_time + CostLoop(self, vehicle_id + 1)

\* a slip that would make the cost accumulate in the object as total_driving_time does
evaluate_cost_accumulating(self) ==
    self.total_driving_service_time + CostLoop(self, 0)

\* Solution.evaluate_cost: the value returned
evaluate_cost(self) == CostLoop(self, 0)

\* Solution.evaluate_cost: the object after the call (line 95)
evaluate_cost_self(self) ==
    [self EXCEPT !.total_driving_service_time = evaluate_cost(self)]

\* one record of the log file
LogRecord(event, subject, verdict) ==
    [event |-> event, subject |-> subject, verdict |-> verdict]

\* feasible, lines 111-113: demand summed over the route from index
RECURSIVE RouteDemand(_, _)
RouteDemand(self, index) ==
    IF IsEnd(self.problem, index) THEN 0
    ELSE self.problem.customers[IndexToNode(self.problem, index)].demand
         + RouteDemand(self, NextValue(self, index))

\* feasible, line 115: the capacity the route of vehicle_id is compared with
CapacityLimit(self, vehicle_id) == self.problem.vehicles[0].capacity

\* feasible, lines 107-119
RECURSIVE CapacityLoop(_, _, _)
CapacityLoop(self, vehicle_id, lg) ==
    IF vehicle_id >= vehicles(self) THEN [ok |-> TRUE, log |-> lg]
    ELSE LET capacity_of_route == RouteDemand(self, Start(self.problem, vehicle_id))
             lg1 == Append(lg, LogRecord("capacity start", vehicle_id, "INFO"))
         IN IF capacity_of_route <= CapacityLimit(self, vehicle_id)
            THEN CapacityLoop(self, vehicle_id + 1,
                     Append(lg1, LogRecord("capacity", vehicle_id, "OK")))
            ELSE [ok |-> FALSE,
                  log |-> Append(lg1, LogRecord("capacity", vehicle_id, "NOT OK"))]

\* a slip that would test the due date strictly
WindowMetStrict(self, index) ==
    LET c == self.problem.customers[IndexToNode(self.problem, index)]
    IN c.ready_time <= CumulMin(self, index) /\ CumulMin(self, index) < c.due_date

\* feasible, lines 130-133
WindowMet(self, index) ==
    LET c == self.problem.customers[IndexToNode(self.problem, index)]
        time_window_arrive == CumulMin(self, index)
    IN c.ready_time <= time_window_arrive /\ time_window_arrive <= c.due_date

\* feasible, lines 126-138: the walk of one route from index
RECURSIVE WindowWalk(_, _, _)
WindowWalk(self, index, lg) ==
    IF IsEnd(self.problem, index) THEN [ok |-> TRUE, log |-> lg]
    ELSE IF IndexToNode(self.problem, index) = self.problem.depot
    THEN WindowWalk(self, NextValue(self, index), lg)
    ELSE IF WindowMet(self, index)
    THEN WindowWalk(self, NextValue(self, index),
             Append(lg, LogRecord("window", IndexToNode(self.problem, index), "OK")))
    ELSE [ok |-> FALSE,
          log |-> Append(lg, LogRecord("window",
                                       IndexToNode(self.problem, index - 1), "NOT OK"))]

\* feasible, lines 123-139
RECURSIVE WindowLoop(_, _, _)
WindowLoop(self, vehicle_id, lg) ==
    IF vehicle_id >= len(self.problem.vehicles) THEN [ok |-> TRUE, log |-> lg]
    ELSE LET w == WindowWalk(self, Start(self.problem, vehicle_id),
                      Append(lg, LogRecord("window start", vehicle_id, "INFO")))
         IN IF w.ok
            THEN WindowLoop(self, vehicle_id + 1,
                     Append(w.log, LogRecord("route windows", vehicle_id, "OK")))
            ELSE w

(* Solution.feasible: the value returned, the records logged, the values   *)
(* evaluate_cost returned during the call and the object after the call.   *)
feasible(self) ==
    LET header == <<LogRecord("instance", self.problem.id, "INFO")>>
        cap == CapacityLoop(self, 0, header)
        win == WindowLoop(self, 0, cap.log)
    IN IF ~cap.ok
       THEN [ret |-> FALSE, log |-> cap.log, costs |-> <<>>, self |-> self]
       ELSE IF ~win.ok
       THEN [ret |-> FALSE, log |-> win.log, costs |-> <<>>, self |-> self]
       ELSE [ret |-> TRUE,
             log |-> Append(win.log, LogRecord("cost", evaluate_cost(self), "INFO")),
             costs |-> <<evaluate_cost(self)>>,
             self |-> evaluate_cost_self(self)]

\* print_solution, lines 49-63: the end-of-route times added to total_driving_time
RECURSIVE EndTimes(_, _)
EndTimes(self, vehicle_id) ==
    IF vehicle_id >= len(self.problem.vehicles) THEN 0
    ELSE CumulMin(self, End(self.problem, vehicle_id)) + EndTimes(self, vehicle_id + 1)

\* Solution.print_solution (what it prints is not kept)
print_solution(self) ==
    LET s1 == [self EXCEPT !.total_driving_time = @ + EndTimes(self, 0)]
    IN [costs |-> <<evaluate_cost(s1)>>, self |-> evaluate_cost_self(s1)]

\* a slip that would stop the walk before the end node is appended
RECURSIVE RouteNodesOpen(_, _)
RouteNodesOpen(self, index) ==
    IF IsEnd(self.problem, index) THEN <<>>
    ELSE <<IndexToNode(self.problem, index)>>
         \o RouteNodesOpen(self, NextValue(self, index))

\* get_routes, lines 72-75: the nodes of the route from index on
RECURSIVE RouteNodes(_, _)
RouteNodes(self, index) ==
    IF IsEnd(self.problem, index) THEN <<IndexToNode(self.problem, index)>>
    ELSE <<IndexToNode(self.problem, index)>> \o RouteNodes(self, NextValue(self, index))

\* get_routes, lines 70-76: the routes appended by one call
RECURSIVE RoutesLoop(_, _)
RoutesLoop(self, route_nbr) ==
    IF route_nbr >= vehicles(self) THEN <<>>
    ELSE <<RouteNodes(self, Start(self.problem, route_nbr))>>
         \o RoutesLoop(self, route_nbr + 1)

\* Solution.get_routes: self.routes after the call, which is also what it returns
get_routes(self) == [self EXCEPT !.routes = @ \o RoutesLoop(self, 0)]

\* no result file under that name
NoFile == [exists |-> FALSE, routes |-> <<>>, cost |-> 0, written_by |-> 0]

\* instance.replace(".txt", ".json"): instance k names dataset k.txt and result k.json
SolutionFile(id) == id

(* Solution.save_to_file: the file system after the call.  written_by is   *)
(* not part of the file: it records which request wrote it.                *)
save_to_file(self, fs, writer) ==
    [fs EXCEPT ![SolutionFile(self.problem.id)] =
        [exists |-> TRUE,
         routes |-> [k \in 1 .. Len(self.routes) |->
                        [vehicle |-> k - 1, route |-> self.routes[k]]],
         cost |-> evaluate_cost(self),
         written_by |-> writer]]

(* ------------------- the solving engine (OR-tools) --------------------- *)
(* SolveWithParameters, line 223, returns None or an assignment.  Every    *)
(* node is mandatory (no disjunction is added), so an assignment chains    *)
(* every non-depot node into exactly one vehicle's path from its start to  *)
(* its end; the Time dimension (lines 193-199) adds a transit and a slack, *)
(* both non-negative, from one index to the next, so cumulative times      *)
(* never decrease along a path.  Capacities and time windows are what      *)
(* feasible() re-checks, so they are not assumed of the assignment.        *)
NonDepot(p) == Nodes(p) \ {p.depot}
VehicleIds(p) == 0 .. (len(p.vehicles) - 1)

Orders(p) ==
    {o \in [1 .. Cardinality(NonDepot(p)) -> NonDepot(p)] :
        \A a, b \in DOMAIN o : a # b => o[a] # o[b]}

RouteOfVehicle(order, veh, v) == SelectSeq(order, LAMBDA c : veh[c] = v)

NextOf(p, order, veh) ==
    [i \in NonEndIndices(p) |->
        LET v == IF i \in NonDepot(p) THEN veh[i]
                 ELSE CHOOSE w \in VehicleIds(p) : Start(p, w) = i
            r == RouteOfVehicle(order, veh, v)
        IN IF i \in NonDepot(p)
           THEN LET k == CHOOSE k \in 1 .. Len(r) : r[k] = i
                IN IF k = Len(r) THEN End(p, v) ELSE r[k + 1]
           ELSE IF r = <<>> THEN End(p, v) ELSE r[1]]

NextMaps(p) ==
    {NextOf(p, o, veh) : o \in Orders(p), veh \in [NonDepot(p) -> VehicleIds(p)]}

Cumuls(p, nx) ==
    {c \in [Indices(p) -> 0 .. MaxTime] : \A i \in NonEndIndices(p) : c[i] <= c[nx[i]]}

Assignments(p) ==
    UNION {{[found |-> TRUE, next |-> nx, cumul |-> c] : c \in Cumuls(p, nx)} :
           nx \in NextMaps(p)}

(* ------------------------ vehicle_routing_solver ----------------------- *)
Instances == 1 .. NumInstances

NoResponse == [status |-> 0, body |-> NoFile]
NoLast == [instance |-> 0, valid |-> TRUE, engine_invoked |-> FALSE,
           engine_found |-> FALSE, error |-> "none"]
NoTT == [state |-> "new", customers |-> <<>>, travel_time |-> <<>>]

\* a window over 0..MaxTime with ready_time <= due_date
Windows == {w \in (0 .. MaxTime) \X (0 .. MaxTime) : w[1] <= w[2]}

(* Problems handed to vehicle_routing_solver: the depot is customer 0 with *)
(* demand 0, service time 0 and a window opening at 0; the other customers *)
(* share one service time, as in the Solomon instances; each vehicle has   *)
(* its own capacity.                                                       *)
Problems ==
    {Problem([v \in 0 .. (NumVehicles - 1) |-> Vehicle(v, caps[v])],
             [c \in 0 .. (NumNodes - 1) |->
                 IF c = 0 THEN Customer(0, 0, 0, depot_due, 0)
                 ELSE Customer(c, dem[c], win[c][1], win[c][2], svc)],
             1, 0) :
        depot_due \in 0 .. MaxTime,
        caps \in [0 .. (NumVehicles - 1) -> 1 .. MaxCap],
        dem \in [1 .. (NumNodes - 1) -> 1 .. MaxDemand],
        win \in [1 .. (NumNodes - 1) -> Windows],
        svc \in 0 .. MaxService}

Init ==
    /\ problem \in Problems
    /\ sol = Solution(problem, None)
    /\ pc = "start"
    /\ feasible_ret = "unset"
    /\ log = <<>>
    /\ cost_rets = <<>>
    /\ files = [i \in Instances |-> NoFile]
    /\ calls = 0
    /\ requests = 0
    /\ response = NoResponse
    /\ last = NoLast
    /\ tt_rows = <<>>
    /\ tt = NoTT

\* lines 178-226 and 231-232: the engine is run; a Solution is built from what it found
Solve ==
    /\ pc = "start"
    /\ \E r \in Assignments(problem) \cup {None} :
          IF r.found
          THEN /\ sol' = Solution(problem, r)
               /\ pc' = "feasible"
          ELSE /\ sol' = sol
               /\ pc' = "failed"
    /\ UNCHANGED <<problem, feasible_ret, log, cost_rets, files, calls,
                   requests, response, last, tt_rows, tt>>

\* line 227: sol.feasible(), its return value dropped by the caller
Feasible ==
    /\ pc = "feasible"
    /\ LET r == feasible(sol)
       IN /\ sol' = r.self
          /\ feasible_ret' = IF r.ret THEN "True" ELSE "False"
          /\ log' = r.log
          /\ cost_rets' = cost_rets \o r.costs
    /\ pc' = "print"
    /\ UNCHANGED <<problem, files, calls, requests, response, last, tt_rows, tt>>

\* line 228: sol.print_solution()
PrintSolution ==
    /\ pc = "print"
    /\ LET r == print_solution(sol)
       IN /\ sol' = r.self
          /\ cost_rets' = cost_rets \o r.costs
    /\ pc' = "routes"
    /\ UNCHANGED <<problem, feasible_ret, log, files, calls, requests,
                   response, last, tt_rows, tt>>

\* line 229: sol.get_routes()
GetRoutes ==
    /\ pc = "routes"
    /\ sol' = get_routes(sol)
    /\ pc' = "save"
    /\ UNCHANGED <<problem, feasible_ret, log, cost_rets, files, calls,
                   requests, response, last, tt_rows, tt>>

\* line 230: sol.save_to_file()
SaveToFile ==
    /\ pc = "save"
    /\ files' = save_to_file(sol, files, requests)
    /\ sol' = evaluate_cost_self(sol)
    /\ cost_rets' = Append(cost_rets, evaluate_cost(sol))
    /\ pc' = "done"
    /\ UNCHANGED <<problem, feasible_ret, log, calls, requests, response,
                   last, tt_rows, tt>>

Next == Solve \/ Feasible \/ PrintSolution \/ GetRoutes \/ SaveToFile

Spec == Init /\ [][Next]_vars

(* ------------- a Solution object used through its methods -------------- *)
(* SpecAPI: the methods of one Solution called in any order, MaxCalls      *)
(* times in all.  The problems are those of Problems in which the          *)
(* customers share demand 1 and one window and the depot's window is the   *)
(* widest one.                                                             *)
ApiProblems ==
    {p \in Problems :
        /\ p.customers[0].due_date = MaxTime
        /\ \A c \in NonDepot(p) :
              /\ p.customers[c].demand = 1
              /\ p.customers[c].ready_time = p.customers[1].ready_time
              /\ p.customers[c].due_date = p.customers[1].due_date}

InitAPI ==
    /\ problem \in ApiProblems
    /\ sol \in {Solution(problem, a) : a \in Assignments(problem)}
    /\ pc = "api"
    /\ feasible_ret = "unset"
    /\ log = <<>>
    /\ cost_rets = <<>>
    /\ files = [i \in Instances |-> NoFile]
    /\ calls = 0
    /\ requests = 0
    /\ response = NoResponse
    /\ last = NoLast
    /\ tt_rows = <<>>
    /\ tt = NoTT

Called == pc = "api" /\ calls < MaxCalls /\ calls' = calls + 1 /\ pc' = pc

\* sol.feasible()
CallFeasible ==
    /\ Called
    /\ LET r == feasible(sol)
       IN /\ sol' = r.self
          /\ feasible_ret' = IF r.ret THEN "True" ELSE "False"
          /\ log' = r.log
          /\ cost_rets' = cost_rets \o r.costs
    /\ UNCHANGED <<problem, files, requests, response, last, tt_rows, tt>>

\* sol.print_solution()
CallPrintSolution ==
    /\ Called
    /\ LET r == print_solution(sol)
       IN /\ sol' = r.self
          /\ cost_rets' = cost_rets \o r.costs
    /\ UNCHANGED <<problem, feasible_ret, log, files, requests, response,
                   last, tt_rows, tt>>

\* sol.get_routes()
CallGetRoutes ==
    /\ Called
    /\ sol' = get_routes(sol)
    /\ UNCHANGED <<problem, feasible_ret, log, cost_rets, files, requests,
                   response, last, tt_rows, tt>>

\* sol.save_to_file()
CallSaveToFile ==
    /\ Called
    /\ files' = save_to_file(sol, files, requests)
    /\ sol' = evaluate_cost_self(sol)
    /\ cost_rets' = Append(cost_rets, evaluate_cost(sol))
    /\ UNCHANGED <<problem, feasible_ret, log, requests, response, last,
                   tt_rows, tt>>

\* sol.evaluate_cost()
CallEvaluateCost ==
    /\ Called
    /\ sol' = evaluate_cost_self(sol)
    /\ cost_rets' = Append(cost_rets, evaluate_cost(sol))
    /\ UNCHANGED <<problem, feasible_ret, log, files, requests, response,
                   last, tt_rows, tt>>

NextAPI ==
    \/ CallFeasible
    \/ CallPrintSolution
    \/ CallGetRoutes
    \/ CallSaveToFile
    \/ CallEvaluateCost

SpecAPI == InitAPI /\ [][NextAPI]_vars

(* ------------------------------- main.py ------------------------------- *)
(* SpecServe: /solve requests served one after the other; each request is  *)
(* the whole handler solve_problem.  The dataset file of the instance is   *)
(* read anew by every request and may have been edited in between.         *)

\* vehicle_routing_solver as run by one call, given what the engine returns
vehicle_routing_solver(data, r, fs, writer) ==
    IF r.found
    THEN LET f == feasible(Solution(data, r))
             s1 == print_solution(f.self).self
             s2 == get_routes(s1)
         IN save_to_file(s2, fs, writer)
    ELSE fs

(* solomon_to_json and the Problem built from it in scenario2: the fleet   *)
(* is vehicle_count vehicles of one capacity, the customers are the rows   *)
(* from line 9 on, the depot index is the default 0.                       *)
DatasetProblem(instance, vehicle_count, vehicle_capacity, rows) ==
    Problem([i \in 0 .. (vehicle_count - 1) |-> Vehicle(i, vehicle_capacity)],
            rows, instance, 0)

(* Dataset rows: none, or the depot row and NumNodes - 1 customer rows of  *)
(* demand 1 and service time 0 sharing a window (ready_time > due_date     *)
(* included).                                                              *)
DatasetRows ==
    {<<>>}
    \cup {[c \in 0 .. (NumNodes - 1) |->
              IF c = 0 THEN Customer(0, 0, 0, MaxTime, 0)
              ELSE Customer(c, 1, ready, due, 0)] :
            ready \in 0 .. MaxTime, due \in 0 .. MaxTime}

\* what the spec's Problem Model requires of a Problem
ValidProblem(p) ==
    /\ len(p.customers) >= 1
    /\ \A v \in DOMAIN p.vehicles : p.vehicles[v].capacity > 0
    /\ \A c \in DOMAIN p.customers :
          p.customers[c].ready_time <= p.customers[c].due_date
    /\ p.depot \in DOMAIN p.customers

(* lines 203-223 for a Problem with customers: SetRange with               *)
(* ready_time > due_date leaves the cumul variable without a value, which  *)
(* the binding reports at once ("CP Solver fail") or the search reports    *)
(* by returning None; otherwise the engine returns None or an assignment.  *)
EngineOutcomes(p) ==
    IF \E c \in NonDepot(p) : p.customers[c].ready_time > p.customers[c].due_date
    THEN {[raised |-> TRUE, result |-> None], [raised |-> FALSE, result |-> None]}
    ELSE {[raised |-> FALSE, result |-> r] : r \in Assignments(p) \cup {None}}

InitServe ==
    /\ problem = Problem(<<>>, <<>>, 0, 0)
    /\ sol = Solution(problem, None)
    /\ pc = "serving"
    /\ feasible_ret = "unset"
    /\ log = <<>>
    /\ cost_rets = <<>>
    /\ files = [i \in Instances |-> NoFile]
    /\ calls = 0
    /\ requests = 0
    /\ response = NoResponse
    /\ last = NoLast
    /\ tt_rows = <<>>
    /\ tt = NoTT

\* main.py lines 16-27 with scenario2 (lines 289-296) and vehicle_routing_solver
SolveProblem(instance) ==
    /\ pc = "serving"
    /\ requests < MaxRequests
    /\ requests' = requests + 1
    /\ \E cap \in 0 .. MaxCap, rows \in DatasetRows :
        LET data == DatasetProblem(instance, NumVehicles, cap, rows) IN
        /\ IF len(data.customers) = 0
           THEN \* line 195: data.customers[data.depot] raises IndexError
                /\ files' = files
                /\ response' = [status |-> 500, body |-> NoFile]
                /\ last' = [instance |-> instance, valid |-> ValidProblem(data),
                            engine_invoked |-> FALSE, engine_found |-> FALSE,
                            error |-> "IndexError"]
           ELSE \E o \in EngineOutcomes(data) :
                IF o.raised
                THEN /\ files' = files
                     /\ response' = [status |-> 500, body |-> NoFile]
                     /\ last' = [instance |-> instance, valid |-> ValidProblem(data),
                                 engine_invoked |-> FALSE, engine_found |-> FALSE,
                                 error |-> "CP Solver fail"]
                ELSE LET fs == vehicle_routing_solver(data, o.result, files,
                                                      requests + 1)
                         f == fs[SolutionFile(instance)]
                     IN /\ files' = fs
                        /\ response' = IF f.exists
                                       THEN [status |-> 200, body |-> f]
                                       ELSE [status |-> 500, body |-> NoFile]
                        /\ last' = [instance |-> instance,
                                    valid |-> ValidProblem(data),
                                    engine_invoked |-> TRUE,
                                    engine_found |-> o.result.found,
                                    error |-> IF f.exists THEN "none"
                                              ELSE "FileNotFoundError"]
    /\ UNCHANGED <<problem, sol, pc, feasible_ret, log, cost_rets, calls,
                   tt_rows, tt>>

NextServe == \E instance \in Instances : SolveProblem(instance)

SpecServe == InitServe /\ [][NextServe]_vars

(* ---------------------------- vrp_problem.py --------------------------- *)
(* SpecTT: Problem.__init__ run on a dataset of up to MaxRows customer     *)
(* rows.  A square root is kept exact: the record [sqrt_of |-> d, plus |-> *)
(* s] stands for the number sqrt(d) + s.                                   *)

\* Customer.__init__; demand, ready_time and due_date play no part in the matrix
TTCustomer(id, x, y, service_time) ==
    [id |-> id, coordinates |-> [x |-> x, y |-> y], demand |-> 0,
     ready_time |-> 0, due_date |-> 0, service_time |-> service_time]

\* Customer.distance: sqrt((other.x - self.x)^2 + (other.y - self.y)^2)
distance(self, other_customer) ==
    [sqrt_of |-> (other_customer.coordinates.x - self.coordinates.x)
                     * (other_customer.coordinates.x - self.coordinates.x)
                 + (other_customer.coordinates.y - self.coordinates.y)
                     * (other_customer.coordinates.y - self.coordinates.y),
     plus |-> 0]

\* a slip that would charge the service time of the destination
TravelTimeEntryDest(customers, i, j) ==
    IF i # j
    THEN [distance(customers[i], customers[j]) EXCEPT
              !.plus = @ + customers[j].service_time]
    ELSE [sqrt_of |-> 0, plus |-> 0]

\* line 66: one entry of travel_time
TravelTimeEntry(customers, i, j) ==
    IF i # j
    THEN [distance(customers[i], customers[j]) EXCEPT
              !.plus = @ + customers[i].service_time]
    ELSE [sqrt_of |-> 0, plus |-> 0]

\* the rows of a dataset file that __init__ turns into customers (lines 46-61)
TTRows ==
    UNION {[0 .. (n - 1) ->
               {[x |-> x, y |-> y, service_time |-> s] :
                   x \in 0 .. MaxCoord, y \in 0 .. MaxCoord, s \in 0 .. MaxService}] :
           n \in 0 .. MaxRows}

InitTT ==
    /\ problem = Problem(<<>>, <<>>, 0, 0)
    /\ sol = Solution(problem, None)
    /\ pc = "tt"
    /\ feasible_ret = "unset"
    /\ log = <<>>
    /\ cost_rets = <<>>
    /\ files = [i \in Instances |-> NoFile]
    /\ calls = 0
    /\ requests = 0
    /\ response = NoResponse
    /\ last = NoLast
    /\ tt_rows \in TTRows
    /\ tt = NoTT

\* Problem.__init__, lines 39-66
ProblemInit ==
    /\ pc = "tt"
    /\ tt.state = "new"
    /\ IF len(tt_rows) = 0
       THEN \* line 63: self.customers[0] raises IndexError
            tt' = [state |-> "IndexError", customers |-> <<>>, travel_time |-> <<>>]
       ELSE LET read == [c \in 0 .. (len(tt_rows) - 1) |->
                            TTCustomer(c, tt_rows[c].x, tt_rows[c].y,
                                       tt_rows[c].service_time)]
                depot == read[0]
                customers == [c \in 0 .. len(tt_rows) |->
                                 IF c < len(tt_rows) THEN read[c] ELSE depot]
                no_customers == len(customers)
            IN tt' = [state |-> "built",
                      customers |-> customers,
                      travel_time |->
                          [i \in 0 .. (no_customers - 1) |->
                              [j \in 0 .. (no_customers - 1) |->
                                  TravelTimeEntry(customers, i, j)]]]
    /\ UNCHANGED <<problem, sol, pc, feasible_ret, log, cost_rets, files, calls,
                   requests, response, last, tt_rows>>

NextTT == ProblemInit

SpecTT == InitTT /\ [][NextTT]_vars

(* ------------------------------ claims --------------------------------- *)
\* a Solution has been built from an assignment
Built == sol.fsolution.found

\* the customers on the path of vehicle v, read off the engine's next-pointers
RECURSIVE Downstream(_)
Downstream(index) ==
    IF IsEnd(sol.problem, index) THEN {}
    ELSE (IF index \in NonDepot(sol.problem) THEN {index} ELSE {})
         \cup Downstream(sol.fsolution.next[index])
Served(v) == Downstream(Start(sol.problem, v))

RECURSIVE SumOver(_, _)
SumOver(S, f) ==
    IF S = {} THEN 0
    ELSE LET x == CHOOSE x \in S : TRUE IN f[x] + SumOver(S \ {x}, f)

Load(v) == SumOver(Served(v), [c \in Served(v) |-> sol.problem.customers[c].demand])
Logged(event, subject, verdict) ==
    \E k \in 1 .. Len(log) : log[k] = LogRecord(event, subject, verdict)

(* C1: once feasible() has returned, it returned False if some vehicle's   *)
(* route carries more demand than that vehicle's own capacity, and no      *)
(* route whose demand is within its own vehicle's capacity failed the      *)
(* capacity check.                                                         *)
C1_CapacityAgainstOwnVehicle ==
    feasible_ret # "unset" =>
        /\ (\E v \in VehicleIds(sol.problem) :
                Load(v) > sol.problem.vehicles[v].capacity)
           => feasible_ret = "False"
        /\ \A v \in VehicleIds(sol.problem) :
                Load(v) <= sol.problem.vehicles[v].capacity
                => ~Logged("capacity", v, "NOT OK")

CapacityChecksPassed ==
    \A v \in VehicleIds(sol.problem) : Logged("capacity", v, "OK")

InWindow(c) ==
    /\ sol.problem.customers[c].ready_time <= sol.fsolution.cumul[c]
    /\ sol.fsolution.cumul[c] <= sol.problem.customers[c].due_date

(* C2: once feasible() has returned with every capacity check passed, it   *)
(* returned True exactly when every non-depot node is reached within its   *)
(* window; the depot's own window plays no part.                           *)
C2_WindowVerdict ==
    (feasible_ret # "unset" /\ CapacityChecksPassed) =>
        (feasible_ret = "True" <=> \A c \in NonDepot(sol.problem) : InWindow(c))

\* feasible() returned False because of a customer reached outside its window
C2_Witness ==
    /\ feasible_ret = "False"
    /\ CapacityChecksPassed
    /\ \E c \in NonDepot(sol.problem) : ~InWindow(c)
    /\ \E c \in NonDepot(sol.problem) : InWindow(c)

TerminalSum ==
    SumOver(VehicleIds(sol.problem),
            [v \in VehicleIds(sol.problem) |-> sol.fsolution.cumul[End(sol.problem, v)]])

(* C3: every value evaluate_cost() returned, and the cost in the result    *)
(* file, is the sum over the vehicles of the cumulative time at the end    *)
(* node of the route.                                                      *)
C3_CostIsTerminalSum ==
    Built =>
        /\ \A k \in 1 .. Len(cost_rets) : cost_rets[k] = TerminalSum
        /\ files[1].exists => files[1].cost = TerminalSum

(* C4: a result file is written only for a Solution whose feasible()       *)
(* returned True.                                                          *)
C4_PersistedOnlyIfFeasible ==
    files[1].exists => feasible_ret = "True"

ServesNone(v) ==
    sol.fsolution.next[Start(sol.problem, v)] = End(sol.problem, v)

\* the routes get_routes() left in the object and the routes in the result file
ProducedRoutes ==
    {<<k - 1, sol.routes[k]>> : k \in 1 .. Len(sol.routes)}
    \cup {<<files[1].routes[k].vehicle, files[1].routes[k].route>> :
             k \in 1 .. Len(files[1].routes)}

(* C7 as stated: a route of a vehicle with customers starts and ends with  *)
(* the depot index; a route of a vehicle without customers is the depot    *)
(* index alone or empty.                                                   *)
C7_RouteShapeAsStated ==
    \A vr \in ProducedRoutes :
        LET r == vr[2] IN
        IF ServesNone(vr[1])
        THEN r = <<sol.problem.depot>> \/ r = <<>>
        ELSE Len(r) >= 2 /\ r[1] = sol.problem.depot /\ r[Len(r)] = sol.problem.depot

(* C7 amended: every route starts and ends with the depot index; the route *)
(* of a vehicle without customers is the pair depot, depot.                *)
C7_RouteShape ==
    \A vr \in ProducedRoutes :
        LET r == vr[2] IN
        /\ Len(r) >= 2 /\ r[1] = sol.problem.depot /\ r[Len(r)] = sol.problem.depot
        /\ ServesNone(vr[1]) => r = <<sol.problem.depot, sol.problem.depot>>

\* a result file holding the route of an idle vehicle and the route of a busy one
C7_Witness ==
    /\ files[1].exists
    /\ \E k \in 1 .. Len(files[1].routes) :
          /\ ServesNone(files[1].routes[k].vehicle)
          /\ files[1].routes[k].route = <<0, 0>>
    /\ \E k \in 1 .. Len(files[1].routes) :
          /\ ~ServesNone(files[1].routes[k].vehicle)
          /\ Len(files[1].routes[k].route) = NumNodes + 1

(* C8: all the values evaluate_cost() has returned for a Solution are      *)
(* equal, whichever methods were called in between and whether the call    *)
(* came from feasible(), print_solution(), save_to_file() or the caller.   *)
C8_CostIdempotent ==
    \A i, j \in 1 .. Len(cost_rets) : cost_rets[i] = cost_rets[j]

\* a non-zero cost returned three times, once from inside feasible(),
\* with print_solution() or get_routes() or save_to_file() called in between
C8_Witness ==
    /\ Len(cost_rets) >= 3
    /\ cost_rets[1] > 0
    /\ feasible_ret = "True"
    /\ calls = MaxCalls

\* the node sequence of vehicle v, read off the engine's next-pointers
RECURSIVE Follow(_)
Follow(index) ==
    <<IndexToNode(sol.problem, index)>>
    \o (IF IsEnd(sol.problem, index) THEN <<>> ELSE Follow(sol.fsolution.next[index]))
OneRoutePerVehicle(routes) ==
    /\ Len(routes) = len(sol.problem.vehicles)
    /\ \A k \in 1 .. Len(routes) : routes[k] = Follow(Start(sol.problem, k - 1))

(* C10: after any number of get_routes() calls, the routes held by the     *)
(* Solution, and the routes save_to_file() then writes, are one route per  *)
(* vehicle, entry k being vehicle k's node sequence.                       *)
C10_RoutesFaithful ==
    /\ Len(sol.routes) > 0 => OneRoutePerVehicle(sol.routes)
    /\ (files[1].exists /\ Len(files[1].routes) > 0) =>
          /\ OneRoutePerVehicle([k \in 1 .. Len(files[1].routes) |->
                                    files[1].routes[k].route])
          /\ \A k \in 1 .. Len(files[1].routes) : files[1].routes[k].vehicle = k - 1

(* C5: a request whose Problem has no customer, a capacity <= 0, a         *)
(* customer with ready_time > due_date or a depot index out of range ends  *)
(* with an InvalidProblem error and without the engine having been run.    *)
C5_InvalidProblemRejected ==
    (requests > 0 /\ ~last.valid) =>
        (last.error = "InvalidProblem" /\ ~last.engine_invoked)

(* C6: a request for which the engine produced no solution is answered     *)
(* with a server error, and a Result returned by a request was written by  *)
(* that same request.                                                      *)
C6_NoResultWithoutSolution ==
    requests > 0 =>
        /\ ~last.engine_found => response.status = 500
        /\ response.status = 200 => response.body.written_by = requests

\* sqrt(e.sqrt_of) + e.plus >= 0
NonNegative(e) == e.plus >= 0 \/ e.plus * e.plus <= e.sqrt_of

(* C9: the travel-time matrix has one row and one column per entry of the  *)
(* customer list; off the diagonal the entry is the distance between the   *)
(* two customers plus the service time of the origin, on the diagonal it   *)
(* is 0; no entry is negative.                                             *)
C9_TravelTimeMatrix ==
    tt.state = "built" =>
        LET n == len(tt.customers) IN
        /\ DOMAIN tt.travel_time = 0 .. (n - 1)
        /\ \A i \in 0 .. (n - 1) :
              /\ DOMAIN tt.travel_time[i] = 0 .. (n - 1)
              /\ tt.travel_time[i][i] = [sqrt_of |-> 0, plus |-> 0]
              /\ \A j \in (0 .. (n - 1)) \ {i} :
                    LET a == tt.customers[i].coordinates
                        b == tt.customers[j].coordinates
                    IN /\ tt.travel_time[i][j].sqrt_of =
                              (a.x - b.x) * (a.x - b.x) + (a.y - b.y) * (a.y - b.y)
                       /\ tt.travel_time[i][j].plus = tt.customers[i].service_time
                       /\ NonNegative(tt.travel_time[i][j])

\* a matrix over customers apart from each other whose service times differ
C9_Witness ==
    /\ tt.state = "built"
    /\ \E i, j \in DOMAIN tt.travel_time :
          /\ i # j
          /\ tt.travel_time[i][j].sqrt_of > 0
          /\ tt.travel_time[i][j].plus > tt.travel_time[j][i].plus

\* the nodes in the order feasible() walks them: vehicle by vehicle, visit by visit
RECURSIVE VisitOrder(_)
VisitOrder(v) ==
    IF v >= len(sol.problem.vehicles) THEN <<>>
    ELSE Follow(Start(sol.problem, v)) \o VisitOrder(v + 1)

\* the customers reached outside their window, in that order
OutOfWindow ==
    SelectSeq(VisitOrder(0),
              LAMBDA n : n # sol.problem.depot /\ ~InWindow(n))

(* C11: when feasible() logs that a time window is not met, the customer   *)
(* it names is the customer whose arrival was tested and found outside its *)
(* window, the first such customer in walking order.                       *)
C11_DiagnosticNamesCustomer ==
    \A k \in 1 .. Len(log) :
        (log[k].event = "window" /\ log[k].verdict = "NOT OK") =>
            (OutOfWindow # <<>> /\ log[k].subject = Head(OutOfWindow))

(* C12: after any print_solution() call, the first or a later one,         *)
(* total_driving_time is the sum over the vehicles of the cumulative time  *)
(* at the end node of the route, not a multiple of it.                     *)
C12_DrivingTimeNotAccumulated ==
    [][(CallPrintSolution \/ PrintSolution) =>
           sol'.total_driving_time = TerminalSum']_vars

====
